---- MODULE Spec2Model ----
(***************************************************************************)
(* ml::static_vector<ValueT, StaticSize>: a fixed-capacity vector whose    *)
(* elements live in an in-place array of lazy_storage cells.  The model    *)
(* keeps the element count m_size and, for every cell, whether it holds a  *)
(* constructed element and which one.  Every public member function is an  *)
(* operator on a container record, composed from the slot primitives       *)
(* construct/destroy exactly as the C++ code composes them; one action per *)
(* member function applies it to the container `vector`.                   *)
(***************************************************************************)
EXTENDS Integers, Sequences, FiniteSets, TLC

\* ---- bounds of the model ------------------------------------------------
\* template parameter StaticSize of the container under study
StaticSize == 3
\* element values are 0..MaxValue
MaxValue == 2
\* width of std::size_t in the model (scaled down from 64)
SizeTBits == 8

\* value_type() : a value-initialised int
DefaultValue == 0
Values == 0..MaxValue
SizeTMod == 2 ^ SizeTBits
Slots == 0..(StaticSize - 1)

\* ---- lazy_storage<ValueT> -------------------------------------------------
\* a cell constructed with lazy_storage(Uninit): no element inside
Uninit == <<>>

\* true when the cell holds an element whose lifetime has begun
live(cell) == cell # Uninit

\* lazy_storage::value()
value(cell) == cell[1]

\* container record: the data members plus a per-call log
\*  bad_construct = number of construct() calls on a live cell
\*  bad_destroy   = number of destroy() calls on a cell with no element
\*  no_return     = the call is inside a loop that no longer changes anything
EmptyStorage == [i \in Slots |-> Uninit]

EmptyVector == [m_size |-> 0, m_storage |-> EmptyStorage]

Begin(v) == [m_size |-> v.m_size, m_storage |-> v.m_storage,
             bad_construct |-> 0, bad_destroy |-> 0, no_return |-> FALSE]

End(c) == [m_size |-> c.m_size, m_storage |-> c.m_storage]

\* lazy_storage::construct(args...) where the element constructor returns
construct(c, i, x) ==
  [c EXCEPT !.m_storage[i] = <<x>>,
            !.bad_construct = @ + (IF live(c.m_storage[i]) THEN 1 ELSE 0)]

\* lazy_storage::construct(args...) where the element constructor throws:
\* no element comes to life
construct_throws(c, i) ==
  [c EXCEPT !.bad_construct = @ + (IF live(c.m_storage[i]) THEN 1 ELSE 0)]

\* lazy_storage::destroy()
destroy(c, i) ==
  [c EXCEPT !.m_storage[i] = Uninit,
            !.bad_destroy = @ + (IF live(c.m_storage[i]) THEN 0 ELSE 1)]

\* ---- <utility> integer comparisons ---------------------------------------
cmp_less(a, b) == a < b

cmp_less_equal(a, b) == a <= b

\* static_cast<size_type>(n)
to_size_type(n) == n % SizeTMod

\* ---- size inspection ------------------------------------------------------
size(c) == c.m_size

max_size == StaticSize

capacity == StaticSize

empty(c) == size(c) = 0

full(c) == size(c) = max_size

\* ---- results of a call ----------------------------------------------------
NoRet == <<>>

Ok(c, r) == [c |-> c, err |-> "none", ret |-> r]

Throw(c, e) == [c |-> c, err |-> e, ret |-> NoRet]

\* ---- single element access ------------------------------------------------
\* a bounds test that also rejects the last element
at_strict(c, index) ==
  IF cmp_less(index, 0) \/ cmp_less_equal(size(c) - 1, index)
    THEN Throw(c, "out_of_range")
    ELSE Ok(c, <<c.m_storage[to_size_type(index)][1]>>)

\* at(index): the element, or std::out_of_range
at(c, index) ==
  IF cmp_less(index, 0) \/ cmp_less_equal(size(c), index)
    THEN Throw(c, "out_of_range")
    ELSE Ok(c, <<value(c.m_storage[to_size_type(index)])>>)

\* operator[](index)
subscript(c, index) == at(c, index)

\* front()
front(c) == at(c, 0)

\* back() that forgets the - 1
back_end(c) == at(c, to_size_type(size(c)))

\* back(): size() - 1 is computed in size_type
back(c) == at(c, to_size_type(size(c) - 1))

\* ---- single element modifiers ---------------------------------------------
\* pop_back() that forgets the element
pop_back_no_destroy(c) ==
  IF c.m_size # 0 THEN [c EXCEPT !.m_size = @ - 1] ELSE c

\* pop_back() that destroys the cell past the last element
pop_back_wrong_cell(c) ==
  IF c.m_size # 0
    THEN [c EXCEPT !.m_size = @ - 1,
                   !.m_storage = [i \in Slots |-> IF i = c.m_size THEN <<>> ELSE @[i]]]
    ELSE c

\* pop_back()
pop_back(c) ==
  IF ~empty(c)
    THEN LET c1 == [c EXCEPT !.m_size = @ - 1]
         IN destroy(c1, c1.m_size)
    ELSE c

\* emplace_back() without the test for a full container
emplace_back_unchecked(c, x, throws) ==
  IF throws
    THEN [c |-> c, err |-> "value_type_exception", ret |-> <<>>]
    ELSE [c |-> [c EXCEPT !.m_size = @ + 1,
                          !.m_storage = [i \in Slots |-> IF i = c.m_size THEN <<x>> ELSE @[i]]],
          err |-> "none", ret |-> <<c.m_size>>]

\* emplace_back() that gives up silently on a full container
emplace_back_silent(c, x, throws) ==
  IF c.m_size = StaticSize
    THEN [c |-> c, err |-> "none", ret |-> <<c.m_size - 1>>]
    ELSE IF throws
           THEN [c |-> c, err |-> "value_type_exception", ret |-> <<>>]
           ELSE [c |-> [c EXCEPT !.m_size = @ + 1, !.m_storage[c.m_size] = <<x>>],
                 err |-> "none", ret |-> <<c.m_size>>]

\* emplace_back() that constructs into the first cell
emplace_back_front(c, x, throws) ==
  IF c.m_size = StaticSize
    THEN [c |-> c, err |-> "logic_error", ret |-> <<>>]
    ELSE IF throws
           THEN [c |-> c, err |-> "value_type_exception", ret |-> <<>>]
           ELSE [c |-> [c EXCEPT !.m_size = @ + 1, !.m_storage[0] = <<x>>],
                 err |-> "none", ret |-> <<c.m_size>>]

\* emplace_back() that keeps the size it incremented when the constructor throws
emplace_back_no_rollback(c, x, throws) ==
  IF c.m_size = StaticSize
    THEN [c |-> c, err |-> "logic_error", ret |-> <<>>]
    ELSE IF throws
           THEN [c |-> [c EXCEPT !.m_size = @ + 1],
                 err |-> "value_type_exception", ret |-> <<>>]
           ELSE [c |-> [c EXCEPT !.m_size = @ + 1, !.m_storage[c.m_size] = <<x>>],
                 err |-> "none", ret |-> <<c.m_size>>]

\* emplace_back(args...); throws = the element constructor throws
emplace_back(c, x, throws) ==
  IF full(c)
    THEN Throw(c, "logic_error")
    ELSE LET c1 == [c EXCEPT !.m_size = to_size_type(@ + 1)]
         IN IF throws
              THEN Throw(pop_back(construct_throws(c1, c1.m_size - 1)),
                         "value_type_exception")
              ELSE Ok(construct(c1, c1.m_size - 1, x), <<c1.m_size - 1>>)

\* push_back(init)
push_back(c, x, throws) == emplace_back(c, x, throws)


\* ---- multiple element modifiers -------------------------------------------
\* shrink_by(count) with <= for <: one element too many
RECURSIVE shrink_by_inclusive(_, _)
shrink_by_inclusive(c, count) ==
  IF cmp_less_equal(0, count) /\ ~empty(c)
    THEN shrink_by_inclusive(pop_back(c), count - 1)
    ELSE c

\* shrink_by(count): while (cmp_less(0, count) && !empty()) { --count; pop_back(); }
RECURSIVE shrink_by(_, _)
shrink_by(c, count) ==
  IF cmp_less(0, count) /\ ~empty(c)
    THEN shrink_by(pop_back(c), count - 1)
    ELSE c

\* shrink_to(count): while (cmp_less(count, size())) pop_back();
\* on an empty container pop_back() changes nothing, so an iteration that
\* starts there is followed by the same iteration for ever
RECURSIVE shrink_to(_, _)
shrink_to(c, count) ==
  IF cmp_less(count, size(c))
    THEN IF empty(c)
           THEN [c EXCEPT !.no_return = TRUE]
           ELSE shrink_to(pop_back(c), count)
    ELSE c

\* clear() that keeps the first element
clear_keep_first(c) == shrink_to(c, 1)

\* clear()
clear(c) == shrink_to(c, 0)

\* the for loop of emplace_back_many with <= for <: one iteration too many
RECURSIVE emplace_back_many_loop_inclusive(_, _, _, _, _)
emplace_back_many_loop_inclusive(c, i, count, x, throwAt) ==
  IF cmp_less_equal(i, count)
    THEN LET r == emplace_back(c, x, i = throwAt)
         IN IF r.err # "none"
              THEN r
              ELSE emplace_back_many_loop_inclusive(r.c, to_size_type(i + 1), count, x, throwAt)
    ELSE Ok(c, NoRet)

\* the for loop of emplace_back_many, from iteration i on; the throwAt-th
\* element construction of the call (counted from 0) throws
RECURSIVE emplace_back_many_loop(_, _, _, _, _)
emplace_back_many_loop(c, i, count, x, throwAt) ==
  IF cmp_less(i, count)
    THEN LET r == emplace_back(c, x, i = throwAt)
         IN IF r.err # "none"
              THEN r
              ELSE emplace_back_many_loop(r.c, to_size_type(i + 1), count, x, throwAt)
    ELSE Ok(c, NoRet)

\* emplace_back_many(count, args...) whose catch block rethrows at once
emplace_back_many_no_rollback(c, count, x, throwAt) ==
  emplace_back_many_loop(c, 0, count, x, throwAt)

\* emplace_back_many(count, args...)
emplace_back_many(c, count, x, throwAt) ==
  LET previous_size == size(c)
      r == emplace_back_many_loop(c, 0, count, x, throwAt)
  IN IF r.err # "none"
       THEN Throw(shrink_to(r.c, previous_size), r.err)
       ELSE r

\* the for loop of emplace_back_range over the inputs rng[i..]
RECURSIVE emplace_back_range_loop(_, _, _, _)
emplace_back_range_loop(c, i, rng, throwAt) ==
  IF i <= Len(rng)
    THEN LET r == emplace_back(c, rng[i], i - 1 = throwAt)
         IN IF r.err # "none"
              THEN r
              ELSE emplace_back_range_loop(r.c, i + 1, rng, throwAt)
    ELSE Ok(c, NoRet)

\* emplace_back_range(first, last) whose catch block rethrows at once
emplace_back_range_no_rollback(c, rng, throwAt) ==
  LET previous_size == size(c)
      r == emplace_back_range_loop(c, 1, rng, throwAt)
  IN IF r.err # "none"
       THEN r
       ELSE Ok(r.c, <<to_size_type(size(r.c) - previous_size)>>)

\* emplace_back_range(first, last): returns the number of elements appended
emplace_back_range(c, rng, throwAt) ==
  LET previous_size == size(c)
      r == emplace_back_range_loop(c, 1, rng, throwAt)
  IN IF r.err # "none"
       THEN Throw(shrink_to(r.c, previous_size), r.err)
       ELSE Ok(r.c, <<to_size_type(size(r.c) - previous_size)>>)

\* resize(count)
resize(c, count, throwAt) ==
  IF cmp_less_equal(count, size(c))
    THEN Ok(shrink_to(c, count), NoRet)
    ELSE emplace_back_many(c, count, DefaultValue, throwAt)

\* resize(count, init) that appends count elements, as resize(count) does
resize_init_count(c, count, init, throwAt) ==
  IF cmp_less_equal(count, size(c))
    THEN Ok(shrink_to(c, count), NoRet)
    ELSE emplace_back_many(c, count, init, throwAt)

\* resize(count, init)
resize_init(c, count, init, throwAt) ==
  IF cmp_less_equal(count, size(c))
    THEN Ok(shrink_to(c, count), NoRet)
    ELSE emplace_back_many(c, to_size_type(to_size_type(count) - size(c)), init, throwAt)

\* ---- <algorithm> on the live cells ----------------------------------------
\* std::ranges::rotate(first, middle, last) on cell indices: the elements of
\* [middle, last) come first, followed by those of [first, middle)
rotate(c, first, middle, last) ==
  [c EXCEPT !.m_storage =
     [i \in Slots |->
        IF first <= i /\ i < last
          THEN @[first + ((i - first + (middle - first)) % (last - first))]
          ELSE @[i]]]

\* the value an element shows after it was moved from: valid but unspecified.
\* residue is that value, or, when it is no element value, says that the
\* element keeps the value it had (as an int does)
moved_from(x, residue) == IF residue \in Values THEN residue ELSE x

\* std::ranges::move(first, last, result): *result = std::move(*first) for each
\* element in turn.  The k-th move assignment of the call (from 0) is the one
\* numbered throwAt: it throws and leaves both operands as they were.
RECURSIVE move(_, _, _, _, _, _, _)
move(c, first, lst, result, k, throwAt, residue) ==
  IF first # lst
    THEN IF k = throwAt
           THEN Throw(c, "value_type_exception")
           ELSE LET x == value(c.m_storage[first])
                    c1 == [c EXCEPT !.m_storage[result] = <<x>>]
                    c2 == [c1 EXCEPT !.m_storage[first] = <<moved_from(x, residue)>>]
                IN move(c2, first + 1, lst, result + 1, k + 1, throwAt, residue)
    ELSE Ok(c, NoRet)

\* ---- insert and erase -------------------------------------------------------
\* iterators are cell indices: begin() is 0 and end() is size()
end(c) == size(c)

\* std::ranges::rotate(pos, end() - 1, end()) on elements whose swap may
\* throw: the last element is swapped down to pos one cell at a time.  The
\* k-th swap of the call (from 0) is the one numbered swapThrowAt: it throws
\* and leaves both operands as they were.
rotate_last(c, pos, swapThrowAt) ==
  LET swaps == (end(c) - 1) - pos
  IN IF 0 <= swapThrowAt /\ swapThrowAt < swaps
       THEN Throw(rotate(c, end(c) - 1 - swapThrowAt, end(c) - 1, end(c)),
                  "value_type_exception")
       ELSE Ok(rotate(c, pos, end(c) - 1, end(c)), NoRet)

\* insert(pos, init) that leaves the new element at the end
insert_no_rotate(c, pos, init, throws, swapThrowAt) ==
  LET r == emplace_back(c, init, throws)
  IN IF r.err # "none"
       THEN r
       ELSE Ok(r.c, <<pos>>)

\* insert(pos, init) that rotates [pos, end()) even when the append threw
insert_rotate_anyway(c, pos, init, throws, swapThrowAt) ==
  LET r == emplace_back(c, init, throws)
  IN IF r.err # "none"
       THEN Throw(rotate(r.c, pos, end(r.c) - 1, end(r.c)), r.err)
       ELSE LET t == rotate_last(r.c, pos, swapThrowAt)
            IN IF t.err # "none" THEN t ELSE Ok(t.c, <<pos>>)

\* insert(pos, init): the exception of a throwing swap leaves rotate and
\* insert with the new element appended and partly moved down
insert(c, pos, init, throws, swapThrowAt) ==
  LET r == emplace_back(c, init, throws)
  IN IF r.err # "none"
       THEN r
       ELSE LET t == rotate_last(r.c, pos, swapThrowAt)
            IN IF t.err # "none" THEN t ELSE Ok(t.c, <<pos>>)

\* erase(pos) that pops the last element without shifting the others down
erase_no_shift(c, pos, throwAt, residue, indeterminate) ==
  IF pos # end(c)
    THEN Ok(pop_back(c), <<pos>>)
    ELSE Ok(c, <<indeterminate>>)

\* erase(pos); with pos == end() the function flows off its end without a
\* return statement and the caller receives an indeterminate iterator
erase(c, pos, throwAt, residue, indeterminate) ==
  IF pos # end(c)
    THEN LET r == move(c, pos + 1, end(c), pos, 0, throwAt, residue)
         IN IF r.err # "none"
              THEN r
              ELSE Ok(pop_back(r.c), <<pos>>)
    ELSE Ok(c, <<indeterminate>>)

\* erase(first, last) that gives up the erased count when the shift throws
erase_range_shrink_on_throw(c, first, lst, throwAt, residue) ==
  LET r == move(c, lst, end(c), first, 0, throwAt, residue)
  IN IF r.err # "none"
       THEN Throw(shrink_by(r.c, lst - first), r.err)
       ELSE Ok(shrink_by(r.c, lst - first), <<first>>)

\* erase(first, last)
erase_range(c, first, lst, throwAt, residue) ==
  LET r == move(c, lst, end(c), first, 0, throwAt, residue)
  IN IF r.err # "none"
       THEN r
       ELSE Ok(shrink_by(r.c, lst - first), <<first>>)

\* erase(insert(pos, init)): the iterator insert returns is handed to erase;
\* an exception leaving insert ends the full expression
erase_insert(c, pos, init, throws, swapThrowAt, throwAt, residue, indeterminate) ==
  LET r == insert(c, pos, init, throws, swapThrowAt)
  IN IF r.err # "none"
       THEN r
       ELSE erase(r.c, r.ret[1], throwAt, residue, indeterminate)

\* insert(pos, count, init) that rotates around end() - 1, as insert(pos, init) does
insert_count_rotate_one(c, pos, count, init, throwAt) ==
  LET r == emplace_back_many(c, count, init, throwAt)
  IN IF r.err # "none"
       THEN r
       ELSE Ok(rotate(r.c, pos, end(r.c) - (IF count = 0 THEN 0 ELSE 1), end(r.c)), <<pos>>)

\* insert(pos, count, init)
insert_count(c, pos, count, init, throwAt) ==
  LET r == emplace_back_many(c, count, init, throwAt)
  IN IF r.err # "none"
       THEN r
       ELSE Ok(rotate(r.c, pos, end(r.c) - count, end(r.c)), <<pos>>)

\* insert(pos, first, last)
insert_range(c, pos, rng, throwAt) ==
  LET r == emplace_back_range(c, rng, throwAt)
  IN IF r.err # "none"
       THEN r
       ELSE LET inserted == r.ret[1]
            IN Ok(rotate(r.c, pos, end(r.c) - inserted, end(r.c)), <<pos>>)

\* ---- value arguments that refer to an element of the container ----------------
\* The argument init is the reference v[ref]; the copy constructor reads it
\* at the moment it constructs a new element.
\* emplace_back(v[ref]): the new cell is constructed after ++m_size
emplace_back_alias(c, ref, throws) ==
  IF full(c)
    THEN Throw(c, "logic_error")
    ELSE LET c1 == [c EXCEPT !.m_size = to_size_type(@ + 1)]
         IN IF throws
              THEN Throw(pop_back(construct_throws(c1, c1.m_size - 1)),
                         "value_type_exception")
              ELSE Ok(construct(c1, c1.m_size - 1, value(c1.m_storage[ref])),
                      <<c1.m_size - 1>>)

\* push_back(v[ref])
push_back_alias(c, ref, throws) == emplace_back_alias(c, ref, throws)

\* the for loop of emplace_back_many(count, v[ref]) from iteration i on
RECURSIVE emplace_back_many_loop_alias(_, _, _, _, _)
emplace_back_many_loop_alias(c, i, count, ref, throwAt) ==
  IF cmp_less(i, count)
    THEN LET r == emplace_back_alias(c, ref, i = throwAt)
         IN IF r.err # "none"
              THEN r
              ELSE emplace_back_many_loop_alias(r.c, to_size_type(i + 1), count, ref, throwAt)
    ELSE Ok(c, NoRet)

\* emplace_back_many(count, v[ref])
emplace_back_many_alias(c, count, ref, throwAt) ==
  LET previous_size == size(c)
      r == emplace_back_many_loop_alias(c, 0, count, ref, throwAt)
  IN IF r.err # "none"
       THEN Throw(shrink_to(r.c, previous_size), r.err)
       ELSE r

\* resize(count, v[ref])
resize_init_alias(c, count, ref, throwAt) ==
  IF cmp_less_equal(count, size(c))
    THEN Ok(shrink_to(c, count), NoRet)
    ELSE emplace_back_many_alias(c, to_size_type(to_size_type(count) - size(c)), ref, throwAt)

\* insert(pos, v[ref]) that moves [pos, end()) up by one before it reads its
\* argument, which then refers to the element that was before it
insert_alias_shift_first(c, pos, ref, throws, swapThrowAt) ==
  insert(c, pos,
         IF pos < ref THEN value(c.m_storage[ref - 1]) ELSE value(c.m_storage[ref]),
         throws, swapThrowAt)

\* insert(pos, v[ref])
insert_alias(c, pos, ref, throws, swapThrowAt) ==
  LET r == emplace_back_alias(c, ref, throws)
  IN IF r.err # "none"
       THEN r
       ELSE LET t == rotate_last(r.c, pos, swapThrowAt)
            IN IF t.err # "none" THEN t ELSE Ok(t.c, <<pos>>)

\* insert(pos, count, v[ref])
insert_count_alias(c, pos, count, ref, throwAt) ==
  LET r == emplace_back_many_alias(c, count, ref, throwAt)
  IN IF r.err # "none"
       THEN r
       ELSE Ok(rotate(r.c, pos, end(r.c) - count, end(r.c)), <<pos>>)

\* ---- constructors ------------------------------------------------------------
\* every constructor starts from m_size {} and cells without elements

\* static_vector(count) that refuses count >= StaticSize
static_vector_count_strict(count, throwAt) ==
  IF cmp_less_equal(StaticSize, count)
    THEN Throw(Begin(EmptyVector), "logic_error")
    ELSE emplace_back_many(Begin(EmptyVector), count, DefaultValue, throwAt)

\* static_vector(count)
static_vector_count(count, throwAt) ==
  emplace_back_many(Begin(EmptyVector), count, DefaultValue, throwAt)

\* static_vector(count, init)
static_vector_count_init(count, init, throwAt) ==
  emplace_back_many(Begin(EmptyVector), count, init, throwAt)

\* static_vector(first, last) whose catch block rethrows at once
static_vector_range_no_clear(rng, throwAt) ==
  emplace_back_range_loop(Begin(EmptyVector), 1, rng, throwAt)

\* static_vector(first, last): while (first != last) emplace_back(*first++),
\* and clear() when that throws
static_vector_range(rng, throwAt) ==
  LET r == emplace_back_range_loop(Begin(EmptyVector), 1, rng, throwAt)
  IN IF r.err # "none"
       THEN Throw(clear(r.c), r.err)
       ELSE r

\* static_vector(std::in_place, args...) for element constructors that may throw
static_vector_in_place(args, throwAt) ==
  LET r == emplace_back_range_loop(Begin(EmptyVector), 1, args, throwAt)
  IN IF r.err # "none"
       THEN Throw(clear(r.c), r.err)
       ELSE r

\* static_vector(count, std::in_place, args...)
static_vector_count_in_place(count, args, throwAt) ==
  LET r1 == emplace_back_range_loop(Begin(EmptyVector), 1, args, throwAt)
      r2 == IF r1.err # "none"
              THEN r1
              ELSE IF cmp_less(Len(args), count)
                     THEN emplace_back_many(r1.c, to_size_type(to_size_type(count) - Len(args)),
                                            DefaultValue, throwAt - Len(args))
                     ELSE r1
  IN IF r2.err # "none"
       THEN Throw(clear(r2.c), r2.err)
       ELSE Ok(r2.c, NoRet)

\* ---- assignment -------------------------------------------------------------
\* a container holding the elements of rng, as the right-hand side of an assignment
Holding(rng) ==
  [m_size |-> Len(rng),
   m_storage |-> [i \in Slots |-> IF i < Len(rng) THEN <<rng[i + 1]>> ELSE Uninit]]

\* the elements of o at the indices from .. to - 1
Elements(o, from, to) == [i \in 1..(to - from) |-> value(o.m_storage[from + i - 1])]

\* std::ranges::copy(other.begin(), other.begin() + n, begin())
copy_from(c, o, n) ==
  [c EXCEPT !.m_storage = [i \in Slots |-> IF i < n THEN <<value(o.m_storage[i])>> ELSE @[i]]]

\* the implicitly defined operator= of a trivially assignable element type:
\* every data member is copied
assign_trivial(c, o) ==
  [c |-> [c EXCEPT !.m_size = o.m_size, !.m_storage = o.m_storage],
   o |-> o, err |-> "none", ret |-> NoRet]

\* operator=(static_vector const& other) that forgets shrink_to(other.size())
copy_assign_no_shrink(c, o) ==
  IF size(c) <= size(o)
    THEN LET c1 == copy_from(c, o, size(c))
             r == emplace_back_range(c1, Elements(o, size(c), size(o)), 0 - 1)
         IN [c |-> r.c, o |-> o, err |-> r.err, ret |-> NoRet]
    ELSE [c |-> copy_from(c, o, size(o)), o |-> o, err |-> "none", ret |-> NoRet]

\* operator=(static_vector const& other), element copies that do not throw
copy_assign(c, o) ==
  IF size(c) <= size(o)
    THEN LET c1 == copy_from(c, o, size(c))
             r == emplace_back_range(c1, Elements(o, size(c), size(o)), 0 - 1)
         IN [c |-> r.c, o |-> o, err |-> r.err, ret |-> NoRet]
    ELSE LET c1 == copy_from(c, o, size(o))
         IN [c |-> shrink_to(c1, size(o)), o |-> o, err |-> "none", ret |-> NoRet]

\* std::ranges::move(other.begin(), other.begin() + n, begin()), from index i on;
\* the move assignment numbered throwAt throws
RECURSIVE move_from(_, _, _, _, _, _)
move_from(c, o, i, n, throwAt, residue) ==
  IF i # n
    THEN IF i = throwAt
           THEN [c |-> c, o |-> o, err |-> "value_type_exception", ret |-> NoRet]
           ELSE LET x == value(o.m_storage[i])
                IN move_from([c EXCEPT !.m_storage[i] = <<x>>],
                             [o EXCEPT !.m_storage[i] = <<moved_from(x, residue)>>],
                             i + 1, n, throwAt, residue)
    ELSE [c |-> c, o |-> o, err |-> "none", ret |-> NoRet]

\* the elements of o from index from on, the first n of them moved from
MovedOut(o, from, n, residue) ==
  [o EXCEPT !.m_storage =
     [i \in Slots |-> IF from <= i /\ i < from + n
                        THEN <<moved_from(value(@[i]), residue)>>
                        ELSE @[i]]]

\* operator=(static_vector&& other) that forgets shrink_to(other.size())
move_assign_no_shrink(c, o, throwAt, residue) ==
  IF size(c) <= size(o)
    THEN LET m == move_from(c, o, 0, size(c), throwAt, residue)
         IN IF m.err # "none"
              THEN m
              ELSE LET r == emplace_back_range(m.c, Elements(m.o, size(c), size(o)),
                                               throwAt - size(c))
                       moved == IF r.err = "none"
                                  THEN size(o) - size(c)
                                  ELSE throwAt - size(c)
                   IN [c |-> r.c, o |-> MovedOut(m.o, size(c), moved, residue),
                       err |-> r.err, ret |-> NoRet]
    ELSE move_from(c, o, 0, size(o), throwAt, residue)

\* operator=(static_vector&& other) that leaves other with size() 0 without
\* destroying its elements
move_assign_source_emptied(c, o, throwAt, residue) ==
  IF size(c) <= size(o)
    THEN LET m == move_from(c, o, 0, size(c), throwAt, residue)
         IN IF m.err # "none"
              THEN m
              ELSE LET r == emplace_back_range(m.c, Elements(m.o, size(c), size(o)),
                                               throwAt - size(c))
                       moved == IF r.err = "none"
                                  THEN size(o) - size(c)
                                  ELSE throwAt - size(c)
                   IN [c |-> r.c,
                       o |-> [MovedOut(m.o, size(c), moved, residue) EXCEPT !.m_size = 0],
                       err |-> r.err, ret |-> NoRet]
    ELSE LET m == move_from(c, o, 0, size(o), throwAt, residue)
         IN IF m.err # "none"
              THEN m
              ELSE [c |-> shrink_to(m.c, size(o)), o |-> [m.o EXCEPT !.m_size = 0],
                    err |-> "none", ret |-> NoRet]

\* operator=(static_vector&& other); the element operation numbered throwAt
\* throws, counting the move assignments and then the move constructions
move_assign(c, o, throwAt, residue) ==
  IF size(c) <= size(o)
    THEN LET m == move_from(c, o, 0, size(c), throwAt, residue)
         IN IF m.err # "none"
              THEN m
              ELSE LET r == emplace_back_range(m.c, Elements(m.o, size(c), size(o)),
                                               throwAt - size(c))
                       moved == IF r.err = "none"
                                  THEN size(o) - size(c)
                                  ELSE throwAt - size(c)
                   IN [c |-> r.c, o |-> MovedOut(m.o, size(c), moved, residue),
                       err |-> r.err, ret |-> NoRet]
    ELSE LET m == move_from(c, o, 0, size(o), throwAt, residue)
         IN IF m.err # "none"
              THEN m
              ELSE [c |-> shrink_to(m.c, size(o)), o |-> m.o, err |-> "none", ret |-> NoRet]

\* ---- move constructor ---------------------------------------------------------
\* the implicitly defined move constructor of a trivially move constructible
\* element type: every data member is copied
static_vector_move_trivial(o) ==
  [c |-> Begin(o), o |-> o, err |-> "none", ret |-> NoRet]

\* static_vector(static_vector&& other): std::ranges::construct_at(this, first, last)
\* runs static_vector(first, last) over the elements of other, through
\* std::move_iterator, or, for an element type that can be copied and whose
\* move constructor may throw (copies), over other.begin() .. other.end()
static_vector_move(o, throwAt, residue, copies) ==
  LET r == static_vector_range(Elements(o, 0, size(o)), throwAt)
      moved == IF r.err = "none" THEN size(o) ELSE throwAt
  IN [c |-> r.c,
      o |-> IF copies THEN o ELSE MovedOut(o, 0, moved, residue),
      err |-> r.err, ret |-> NoRet]

\* ---- destructor ----------------------------------------------------------------
\* ~static_vector() of an element type with a destructor of its own: clear()
static_vector_destructor(c) == clear(c)

\* ---- storage_iterator and iteration ------------------------------------------
\* An iterator is the offset of its m_ptr from std::data(m_storage).
\* begin(): the iterator at the first cell
begin(c) == 0

\* operator*: the cell m_ptr points at; a dead cell has no value to refer to
operator_deref(c, it) == c.m_storage[it]

\* iterator - iterator
difference(lhs, rhs) == lhs - rhs

\* operator++(): it is the iterator afterwards, ret the iterator returned
pre_increment(it) == [it |-> it + 1, ret |-> it + 1]

\* operator++(int): copy = *this; ++*this; return copy
post_increment(it) == [it |-> pre_increment(it).it, ret |-> it]

\* operator--()
pre_decrement(it) == [it |-> it - 1, ret |-> it - 1]

\* operator--(int): copy = *this; --*this; return *this
post_decrement(it) == [it |-> pre_decrement(it).it, ret |-> pre_decrement(it).it]

\* for (it = first; it != lst; ++it) seen.push_back(*it)
RECURSIVE for_each(_, _, _, _)
for_each(c, it, lst, seen) ==
  IF it = lst THEN seen
  ELSE for_each(c, pre_increment(it).it, lst, Append(seen, operator_deref(c, it)))

\* an rbegin() that starts behind the last cell of the storage
rbegin_storage(c) == capacity

\* rbegin(): reverse_iterator(end()); a reverse iterator is its base iterator
rbegin(c) == end(c)

\* rend(): reverse_iterator(begin())
rend(c) == begin(c)

\* std::reverse_iterator::operator*: tmp = current; return *--tmp
reverse_deref(c, current) == operator_deref(c, pre_decrement(current).ret)

\* for (it = first; it != lst; ++it) seen.push_back(*it) on reverse
\* iterators, whose operator++ is --current
RECURSIVE reverse_for_each(_, _, _, _)
reverse_for_each(c, current, lst, seen) ==
  IF current = lst THEN seen
  ELSE reverse_for_each(c, pre_decrement(current).it, lst,
                        Append(seen, reverse_deref(c, current)))

\* end() - begin() and the cells a loop from begin() to end() dereferences
iterate(c) ==
  Ok(c, <<difference(end(c), begin(c)), for_each(c, begin(c), end(c), <<>>)>>)

\* the cells a loop from rbegin() to rend() dereferences
reverse_iterate(c) ==
  Ok(c, <<reverse_for_each(c, rbegin(c), rend(c), <<>>)>>)

\* one step of an iterator: where it is afterwards and what the step returned
step(c, s) == Ok(c, <<s.it, s.ret>>)

\* ---- comparisons ----------------------------------------------------------------
\* a container of capacity n holding the elements of rng: the right-hand side
\* static_vector<OtherT, OtherSize> of a comparison
HoldingIn(rng, n) ==
  [m_size |-> Len(rng),
   m_storage |-> [i \in 0..(n - 1) |-> IF i < Len(rng) THEN <<rng[i + 1]>> ELSE Uninit]]

\* the loop of std::ranges::equal over [begin(), end()) of both sides, from index i on
RECURSIVE equal_loop(_, _, _)
equal_loop(lhs, rhs, i) ==
  IF i = end(lhs)
    THEN TRUE
    ELSE IF value(lhs.m_storage[i]) # value(rhs.m_storage[i])
           THEN FALSE
           ELSE equal_loop(lhs, rhs, i + 1)

\* std::ranges::equal that compares the common prefix only
equal_prefix(lhs, rhs) ==
  \A i \in 0..(size(lhs) - 1) :
    i < size(rhs) => value(lhs.m_storage[i]) = value(rhs.m_storage[i])

\* std::ranges::equal(lhs, rhs) on two sized ranges: different sizes are unequal
equal(lhs, rhs) ==
  IF size(lhs) # size(rhs)
    THEN FALSE
    ELSE equal_loop(lhs, rhs, 0)

\* operator==(lhs, rhs)
operator_eq(lhs, rhs) ==
  [c |-> lhs, o |-> rhs, err |-> "none", ret |-> <<equal(lhs, rhs)>>]

\* the three-way comparison of two elements
compare_three_way(x, y) ==
  IF x < y THEN "less" ELSE IF x > y THEN "greater" ELSE "equal"

\* std::lexicographical_compare_three_way that stops at the end of either side
RECURSIVE lexicographical_compare_prefix(_, _, _)
lexicographical_compare_prefix(lhs, rhs, i) ==
  IF i = end(lhs) \/ i = end(rhs)
    THEN "equal"
    ELSE LET cmp == compare_three_way(value(lhs.m_storage[i]), value(rhs.m_storage[i]))
         IN IF cmp # "equal"
              THEN cmp
              ELSE lexicographical_compare_prefix(lhs, rhs, i + 1)

\* std::lexicographical_compare_three_way(lhs.begin(), lhs.end(), rhs.begin(),
\* rhs.end()), from index i of both sides on
RECURSIVE lexicographical_compare_three_way(_, _, _)
lexicographical_compare_three_way(lhs, rhs, i) ==
  IF i # end(lhs)
    THEN IF i = end(rhs)
           THEN "greater"
           ELSE LET cmp == compare_three_way(value(lhs.m_storage[i]), value(rhs.m_storage[i]))
                IN IF cmp # "equal"
                     THEN cmp
                     ELSE lexicographical_compare_three_way(lhs, rhs, i + 1)
    ELSE IF i = end(rhs) THEN "equal" ELSE "less"

\* operator<=>(lhs, rhs)
operator_cmp(lhs, rhs) ==
  [c |-> lhs, o |-> rhs, err |-> "none",
   ret |-> <<lexicographical_compare_three_way(lhs, rhs, 0)>>]

\* ---- inputs of the calls --------------------------------------------------
\* longest input range handed to a range call
MaxRangeLen == 2

\* index arguments: negative, in range, past the end, and the largest size_type
Indexes == (-1..(StaticSize + 1)) \cup {SizeTMod - 1}

\* count arguments
Counts == -1..(StaticSize + 1)

\* the last element operation of a call that may throw
MaxThrowAt == 1

\* which element operation of a call throws, counted from 0 (-1: none does)
ThrowPoints == -1..MaxThrowAt

\* what a moved-from element shows: the value it had (as an int does), coded
\* by DefaultValue - 1, or the value-initialised state (as a string does)
Residues == {DefaultValue - 1, DefaultValue}

\* valid iterators into a container: begin() .. end()
Iterators(v) == 0..v.m_size

\* what an iterator that was never initialised may compare equal to
AnyIterator == 0..StaticSize

InputRanges == UNION {[1..n -> Values] : n \in 0..MaxRangeLen}

\* the contents a container of this capacity can have
AnyContents == UNION {[1..n -> Values] : n \in 0..StaticSize}

\* the ranges a constructor is given: all that fit and one that does not
CtorRanges == AnyContents \cup {[i \in 1..(StaticSize + 1) |-> i % (MaxValue + 1)]}

\* the capacities of a right-hand side that holds rng
Capacities(rng) == {n \in 1..(StaticSize + 1) : n >= Len(rng)}

\* ---- state ----------------------------------------------------------------
VARIABLES
  vector,  \* the container the calls are made on
  other,   \* the right-hand side of the assignment under way, else empty
  pre,     \* its data members when the last call started
  last     \* the last call: name, arguments, outcome

vars == <<vector, other, pre, last>>

CallWith(op, arg, r, o) ==
  /\ vector' = End(r.c)
  /\ other' = o
  /\ last' = [op |-> op, arg |-> arg,
              err |-> IF r.c.no_return THEN "no_return" ELSE r.err,
              ret |-> r.ret,
              bad_construct |-> r.c.bad_construct,
              bad_destroy |-> r.c.bad_destroy]

\* a member function of vector is called
Call(op, arg, r) ==
  /\ pre' = vector
  /\ CallWith(op, arg, r, other)

\* a new container takes the place of vector, which is empty, so that
\* nothing is left to destroy
Construct(op, arg, r) ==
  /\ vector = EmptyVector
  /\ pre' = EmptyVector
  /\ CallWith(op, arg, r, other)

\* a new container is made from another one in the place of vector, which
\* is empty
ConstructFrom(op, arg, r) ==
  /\ vector = EmptyVector
  /\ pre' = EmptyVector
  /\ CallWith(op, arg, r, r.o)

\* vector is assigned from a container that holds rng
Assign(op, arg, r) ==
  /\ pre' = vector
  /\ CallWith(op, arg, r, r.o)

\* vector is compared with a container that holds rng
Compare(op, arg, r) ==
  /\ pre' = vector
  /\ CallWith(op, arg, r, r.o)

\* no call is under way and no result is held
NoCall == [op |-> "", arg |-> <<>>, err |-> "none", ret |-> NoRet,
           bad_construct |-> 0, bad_destroy |-> 0]

\* the caller is between two statements
Returned == last = NoCall

\* static_vector(): the default constructor
Init ==
  /\ vector = EmptyVector
  /\ other = EmptyVector
  /\ pre = EmptyVector
  /\ last = NoCall

EmplaceBack ==
  /\ Returned
  /\ \E x \in Values, throws \in BOOLEAN :
       Call("emplace_back", <<x, throws>>, emplace_back(Begin(vector), x, throws))

PushBack ==
  /\ Returned
  /\ \E x \in Values, throws \in BOOLEAN :
       Call("push_back", <<x, throws>>, push_back(Begin(vector), x, throws))

PopBack ==
  /\ Returned
  /\ Call("pop_back", <<>>, Ok(pop_back(Begin(vector)), NoRet))

At ==
  /\ Returned
  /\ \E index \in Indexes : Call("at", <<index>>, at(Begin(vector), index))

Subscript ==
  /\ Returned
  /\ \E index \in Indexes : Call("operator[]", <<index>>, subscript(Begin(vector), index))

Front ==
  /\ Returned
  /\ Call("front", <<>>, front(Begin(vector)))

Back ==
  /\ Returned
  /\ Call("back", <<>>, back(Begin(vector)))

Clear ==
  /\ Returned
  /\ Call("clear", <<>>, Ok(clear(Begin(vector)), NoRet))

ShrinkBy ==
  /\ Returned
  /\ \E count \in Counts :
       Call("shrink_by", <<count>>, Ok(shrink_by(Begin(vector), count), NoRet))

ShrinkTo ==
  /\ Returned
  /\ \E count \in Counts :
       Call("shrink_to", <<count>>, Ok(shrink_to(Begin(vector), count), NoRet))

EmplaceBackMany ==
  /\ Returned
  /\ \E count \in Counts, x \in Values, throwAt \in ThrowPoints :
       Call("emplace_back_many", <<count, x, throwAt>>,
            emplace_back_many(Begin(vector), count, x, throwAt))

EmplaceBackRange ==
  /\ Returned
  /\ \E rng \in InputRanges, throwAt \in ThrowPoints :
       Call("emplace_back_range", <<rng, throwAt>>,
            emplace_back_range(Begin(vector), rng, throwAt))

Resize ==
  /\ Returned
  /\ \E count \in Counts, throwAt \in ThrowPoints :
       Call("resize", <<count, throwAt>>, resize(Begin(vector), count, throwAt))

ResizeInit ==
  /\ Returned
  /\ \E count \in Counts, init \in Values, throwAt \in ThrowPoints :
       Call("resize_init", <<count, init, throwAt>>,
            resize_init(Begin(vector), count, init, throwAt))

Insert ==
  /\ Returned
  /\ \E pos \in Iterators(vector), init \in Values, throws \in BOOLEAN,
        swapThrowAt \in ThrowPoints :
       Call("insert", <<pos, init, throws, swapThrowAt>>,
            insert(Begin(vector), pos, init, throws, swapThrowAt))

EraseInsert ==
  /\ Returned
  /\ \E pos \in Iterators(vector), init \in Values, throws \in BOOLEAN,
        swapThrowAt \in ThrowPoints, throwAt \in ThrowPoints, residue \in Residues,
        indeterminate \in AnyIterator :
       Call("erase_insert", <<pos, init, throws, throwAt, swapThrowAt>>,
            erase_insert(Begin(vector), pos, init, throws, swapThrowAt, throwAt, residue,
                         indeterminate))

Erase ==
  /\ Returned
  /\ \E pos \in Iterators(vector), throwAt \in ThrowPoints, residue \in Residues,
        indeterminate \in AnyIterator :
       Call("erase", <<pos>>, erase(Begin(vector), pos, throwAt, residue, indeterminate))

EraseRange ==
  /\ Returned
  /\ \E first \in Iterators(vector), throwAt \in ThrowPoints, residue \in Residues :
       \E lst \in first..end(vector) :
         Call("erase_range", <<first, lst, throwAt>>,
              erase_range(Begin(vector), first, lst, throwAt, residue))

\* insert(pos, count, init) with count >= 0: a negative count makes
\* end() - count an iterator past end()
InsertCount ==
  /\ Returned
  /\ \E pos \in Iterators(vector), count \in 0..(StaticSize + 1), init \in Values,
        throwAt \in ThrowPoints :
       Call("insert_count", <<pos, count, init, throwAt>>,
            insert_count(Begin(vector), pos, count, init, throwAt))

InsertRange ==
  /\ Returned
  /\ \E pos \in Iterators(vector), rng \in InputRanges, throwAt \in ThrowPoints :
       Call("insert_range", <<pos, rng, throwAt>>,
            insert_range(Begin(vector), pos, rng, throwAt))

ConstructCount ==
  /\ Returned
  /\ \E count \in Counts, throwAt \in ThrowPoints :
       Construct("static_vector_count", <<count, throwAt>>,
                 static_vector_count(count, throwAt))

ConstructCountInit ==
  /\ Returned
  /\ \E count \in Counts, init \in Values, throwAt \in ThrowPoints :
       Construct("static_vector_count_init", <<count, init, throwAt>>,
                 static_vector_count_init(count, init, throwAt))

ConstructRange ==
  /\ Returned
  /\ \E rng \in CtorRanges, throwAt \in ThrowPoints :
       Construct("static_vector_range", <<rng, throwAt>>, static_vector_range(rng, throwAt))

ConstructInPlace ==
  /\ Returned
  /\ \E args \in InputRanges, throwAt \in ThrowPoints :
       Construct("static_vector_in_place", <<args, throwAt>>,
                 static_vector_in_place(args, throwAt))

ConstructCountInPlace ==
  /\ Returned
  /\ \E count \in Counts, args \in InputRanges, throwAt \in ThrowPoints :
       Construct("static_vector_count_in_place", <<count, args, throwAt>>,
                 static_vector_count_in_place(count, args, throwAt))

ConstructMoveTrivial ==
  /\ Returned
  /\ \E rng \in AnyContents :
       ConstructFrom("static_vector_move_trivial", <<rng>>,
                     static_vector_move_trivial(Holding(rng)))

ConstructMove ==
  /\ Returned
  /\ \E rng \in AnyContents, throwAt \in ThrowPoints, residue \in Residues,
        copies \in BOOLEAN :
       ConstructFrom("static_vector_move", <<rng, throwAt, copies>>,
                     static_vector_move(Holding(rng), throwAt, residue, copies))

AssignTrivial ==
  /\ Returned
  /\ \E rng \in AnyContents :
       Assign("assign_trivial", <<rng>>, assign_trivial(Begin(vector), Holding(rng)))

CopyAssign ==
  /\ Returned
  /\ \E rng \in AnyContents :
       Assign("copy_assign", <<rng>>, copy_assign(Begin(vector), Holding(rng)))

MoveAssign ==
  /\ Returned
  /\ \E rng \in AnyContents, throwAt \in ThrowPoints, residue \in Residues :
       Assign("move_assign", <<rng, throwAt>>,
              move_assign(Begin(vector), Holding(rng), throwAt, residue))

Equals ==
  /\ Returned
  /\ \E rng \in CtorRanges :
       \E n \in Capacities(rng) :
         Compare("operator==", <<rng, n>>, operator_eq(Begin(vector), HoldingIn(rng, n)))

ThreeWay ==
  /\ Returned
  /\ \E rng \in CtorRanges :
       \E n \in Capacities(rng) :
         Compare("operator<=>", <<rng, n>>, operator_cmp(Begin(vector), HoldingIn(rng, n)))

\* a reference argument refers to one of the elements of the container
PushBackAlias ==
  /\ Returned
  /\ \E ref \in 0..(size(vector) - 1), throws \in BOOLEAN :
       Call("push_back_alias", <<ref, throws>>, push_back_alias(Begin(vector), ref, throws))

InsertAlias ==
  /\ Returned
  /\ \E pos \in Iterators(vector), ref \in 0..(size(vector) - 1), throws \in BOOLEAN,
        swapThrowAt \in ThrowPoints :
       Call("insert_alias", <<pos, ref, throws, swapThrowAt>>,
            insert_alias(Begin(vector), pos, ref, throws, swapThrowAt))

InsertCountAlias ==
  /\ Returned
  /\ \E pos \in Iterators(vector), count \in 0..(StaticSize + 1),
        ref \in 0..(size(vector) - 1), throwAt \in ThrowPoints :
       Call("insert_count_alias", <<pos, count, ref, throwAt>>,
            insert_count_alias(Begin(vector), pos, count, ref, throwAt))

ResizeInitAlias ==
  /\ Returned
  /\ \E count \in Counts, ref \in 0..(size(vector) - 1), throwAt \in ThrowPoints :
       Call("resize_init_alias", <<count, ref, throwAt>>,
            resize_init_alias(Begin(vector), count, ref, throwAt))

Iterate ==
  /\ Returned
  /\ Call("begin..end", <<>>, iterate(Begin(vector)))

ReverseIterate ==
  /\ Returned
  /\ Call("rbegin..rend", <<>>, reverse_iterate(Begin(vector)))

\* ++it on an iterator before end()
PreIncrement ==
  /\ Returned
  /\ \E it \in Iterators(vector) :
       /\ it # end(vector)
       /\ Call("operator++()", <<it>>, step(Begin(vector), pre_increment(it)))

\* it++ on an iterator before end()
PostIncrement ==
  /\ Returned
  /\ \E it \in Iterators(vector) :
       /\ it # end(vector)
       /\ Call("operator++(int)", <<it>>, step(Begin(vector), post_increment(it)))

\* --it on an iterator after begin()
PreDecrement ==
  /\ Returned
  /\ \E it \in Iterators(vector) :
       /\ it # begin(vector)
       /\ Call("operator--()", <<it>>, step(Begin(vector), pre_decrement(it)))

\* it-- on an iterator after begin()
PostDecrement ==
  /\ Returned
  /\ \E it \in Iterators(vector) :
       /\ it # begin(vector)
       /\ Call("operator--(int)", <<it>>, step(Begin(vector), post_decrement(it)))

\* the full expression of a call that returned or threw ends: its value or
\* the caught exception is dropped and the caller goes on to its next statement
EndStatement ==
  /\ last # NoCall
  /\ last.err # "no_return"
  /\ last' = NoCall
  /\ pre' = vector
  /\ other' = EmptyVector
  /\ UNCHANGED vector

Next ==
  \/ EndStatement
  \/ EmplaceBack
  \/ PushBack
  \/ PopBack
  \/ At
  \/ Subscript
  \/ Front
  \/ Back
  \/ Clear
  \/ ShrinkBy
  \/ ShrinkTo
  \/ EmplaceBackMany
  \/ EmplaceBackRange
  \/ Resize
  \/ ResizeInit
  \/ Insert
  \/ EraseInsert
  \/ Erase
  \/ EraseRange
  \/ InsertCount
  \/ InsertRange
  \/ ConstructCount
  \/ ConstructCountInit
  \/ ConstructRange
  \/ ConstructInPlace
  \/ ConstructCountInPlace
  \/ ConstructMoveTrivial
  \/ ConstructMove
  \/ AssignTrivial
  \/ CopyAssign
  \/ MoveAssign
  \/ Equals
  \/ ThreeWay
  \/ Iterate
  \/ ReverseIterate
  \/ PreIncrement
  \/ PostIncrement
  \/ PreDecrement
  \/ PostDecrement
  \/ PushBackAlias
  \/ InsertAlias
  \/ InsertCountAlias
  \/ ResizeInitAlias

Spec == Init /\ [][Next]_vars

\* ==== properties ===========================================================
\* the live elements of a container, in order
Contents(v) == [i \in 1..v.m_size |-> v.m_storage[i - 1]]

Called(op) == last.op = op

Appending == Called("emplace_back") \/ Called("push_back")

\* C1: after every call, successful or failed, 0 <= size() <= capacity(),
\* and capacity() is the template argument StaticSize
C1_SizeWithinCapacity ==
  /\ 0 <= size(vector)
  /\ size(vector) <= capacity
  /\ capacity = StaticSize

\* a rejected append on a full container, after which size() = capacity()
C1_Witness ==
  /\ Appending
  /\ last.err = "logic_error"
  /\ size(vector) = capacity

\* C2: when a call has returned or thrown, cell i holds an element exactly
\* when i < size()
C2_LiveIffBelowSize ==
  \A i \in Slots : live(vector.m_storage[i]) <=> i < size(vector)

\* a bulk append that threw after it had appended an element, on a container
\* that keeps elements
C2_Witness ==
  /\ Called("emplace_back_range")
  /\ last.err = "value_type_exception"
  /\ last.arg[2] >= 1
  /\ size(vector) >= 1

\* C3: no call constructs into a cell that holds an element, and no call
\* destroys a cell that holds none
C3_NoLifetimeError ==
  /\ last.bad_construct = 0
  /\ last.bad_destroy = 0

\* the sequence operations the container is compared with
Take(s, n) == SubSeq(s, 1, n)

Drop(s, n) == SubSeq(s, n + 1, Len(s))

Min(a, b) == IF a < b THEN a ELSE b

Max(a, b) == IF a < b THEN b ELSE a

Fill(n, x) == [i \in 1..n |-> <<x>>]

SeqApply(op, arg, s) ==
  CASE op \in {"emplace_back", "push_back"} -> Append(s, <<arg[1]>>)
    [] op = "pop_back" -> Take(s, Max(Len(s) - 1, 0))
    [] op = "insert" -> Take(s, arg[1]) \o <<<<arg[2]>>>> \o Drop(s, arg[1])
    [] op = "erase" -> Take(s, arg[1]) \o Drop(s, arg[1] + 1)
    [] op = "erase_range" -> Take(s, arg[1]) \o Drop(s, arg[2])
    [] op = "resize" -> Take(s, Min(arg[1], Len(s))) \o Fill(arg[1] - Len(s), DefaultValue)
    [] op = "resize_init" -> Take(s, Min(arg[1], Len(s))) \o Fill(arg[1] - Len(s), arg[2])
    [] op = "shrink_by" -> Take(s, Len(s) - Min(Max(arg[1], 0), Len(s)))
    [] op = "shrink_to" -> Take(s, Min(arg[1], Len(s)))
    [] op = "clear" -> <<>>

SeqOps == {"emplace_back", "push_back", "pop_back", "insert", "erase", "erase_range",
           "resize", "resize_init", "shrink_by", "shrink_to", "clear"}

\* C4: a successful push_back, pop_back, insert, erase, resize, shrink or clear
\* leaves the contents that the same operation gives on a plain sequence
C4_MatchesSequence ==
  (last.op \in SeqOps /\ last.err = "none")
    => Contents(vector) = SeqApply(last.op, last.arg, Contents(pre))

\* C5: an append on a container that is not full, whose constructor returns,
\* succeeds, adds one element at index old size(), keeps the elements below
\* it and returns a reference to the last element
C5_AppendOne ==
  (Appending /\ ~full(pre) /\ ~last.arg[2])
    => /\ last.err = "none"
       /\ size(vector) = size(pre) + 1
       /\ vector.m_storage[size(pre)] = <<last.arg[1]>>
       /\ \A i \in Slots : i < size(pre) => vector.m_storage[i] = pre.m_storage[i]
       /\ last.ret = <<size(vector) - 1>>

\* an append behind an element that is there already
C5_Witness ==
  /\ Appending
  /\ last.err = "none"
  /\ size(pre) >= 1
  /\ vector.m_storage[0] # vector.m_storage[size(pre)]

\* C6: an append on a full container throws std::logic_error and changes
\* neither size() nor any element
C6_FullRejected ==
  (Appending /\ full(pre))
    => /\ last.err = "logic_error"
       /\ vector = pre

\* push_back on a full container of distinct elements was rejected
C6_Witness ==
  /\ Called("push_back")
  /\ full(pre)
  /\ last.err = "logic_error"
  /\ vector.m_storage[0] # vector.m_storage[1]

\* C7: when the element constructor throws in an append on a container that
\* is not full, the exception reaches the caller and size() and all cells are
\* as before the call, the cell at index size() without an element
C7_ThrowingAppendNoEffect ==
  (Appending /\ ~full(pre) /\ last.arg[2])
    => /\ last.err = "value_type_exception"
       /\ vector = pre
       /\ ~live(vector.m_storage[size(vector)])

\* the constructor threw in an append on a container with an element
C7_Witness ==
  /\ Appending
  /\ last.arg[2]
  /\ last.err = "value_type_exception"
  /\ size(pre) >= 1

\* C8: pop_back never throws; on a container with elements it ends the life
\* of the last element only and decrements size(), on an empty one it changes
\* nothing
C8_PopBack ==
  Called("pop_back")
    => /\ last.err = "none"
       /\ last.bad_destroy = 0
       /\ IF empty(pre)
            THEN vector = pre
            ELSE /\ size(vector) = size(pre) - 1
                 /\ vector.m_storage = [pre.m_storage EXCEPT ![size(pre) - 1] = Uninit]

\* pop_back removed the last of several elements
C8_Witness ==
  /\ Called("pop_back")
  /\ size(pre) >= 2
  /\ size(vector) = size(pre) - 1

\* C9: at(i) and operator[](i) throw std::out_of_range exactly when i < 0 or
\* i >= size(), return the element at position i otherwise, and never change
\* the container
C9_CheckedAccess ==
  (Called("at") \/ Called("operator[]"))
    => LET i == last.arg[1]
       IN /\ last.err = "out_of_range" <=> (i < 0 \/ i >= size(pre))
          /\ last.err \in {"out_of_range", "none"}
          /\ last.err = "none" => last.ret = pre.m_storage[i]
          /\ vector = pre

\* the largest index of size_type was rejected on a container with elements
C9_Witness ==
  /\ Called("at")
  /\ size(pre) >= 2
  /\ last.arg[1] = SizeTMod - 1
  /\ last.err = "out_of_range"

\* C10: front() and back() return the first and the last element of a
\* container with elements and throw std::out_of_range on an empty one
C10_FrontBack ==
  /\ Called("front") =>
       IF empty(pre)
         THEN last.err = "out_of_range"
         ELSE last.err = "none" /\ last.ret = pre.m_storage[0]
  /\ Called("back") =>
       IF empty(pre)
         THEN last.err = "out_of_range"
         ELSE last.err = "none" /\ last.ret = pre.m_storage[size(pre) - 1]
  /\ (Called("front") \/ Called("back")) => vector = pre

\* back() on an empty container threw
C10_Witness ==
  /\ Called("back")
  /\ empty(pre)
  /\ last.err = "out_of_range"

\* the sequence s with the elements of t put in before index p
Spliced(s, p, t) == Take(s, p) \o t \o Drop(s, p)

\* a swap of the rotate step of insert(pos, x) on pre throws when the swap
\* numbered swapThrowAt is one of the size() - p swaps it makes
SwapThrows(p, swapThrowAt) == 0 <= swapThrowAt /\ swapThrowAt < size(pre) - p

\* C11: insert(pos, x) on a container that is not full, whose constructor
\* returns and whose swaps do not throw, succeeds; a successful insert leaves
\* old[0..p) ++ [x] ++ old[p..size), size() one larger, and returns the
\* iterator at index p, where x now is
C11_InsertOne ==
  Called("insert")
    => LET p == last.arg[1]
           x == last.arg[2]
       IN /\ (~full(pre) /\ ~last.arg[3] /\ ~SwapThrows(p, last.arg[4]))
               => last.err = "none"
          /\ last.err = "none"
               => /\ Contents(vector) = Spliced(Contents(pre), p, <<<<x>>>>)
                  /\ size(vector) = size(pre) + 1
                  /\ last.ret = <<p>>
                  /\ vector.m_storage[last.ret[1]] = <<x>>

\* an insert before the last of two different elements
C11_Witness ==
  /\ Called("insert")
  /\ last.err = "none"
  /\ size(pre) = 2
  /\ last.arg[1] = 1
  /\ pre.m_storage[0] # pre.m_storage[1]
  /\ vector.m_storage[1] # pre.m_storage[1]

\* C12: insert(pos, x) on a full container throws std::logic_error, and an
\* insert whose element constructor throws lets that exception out; in both
\* cases size() and every cell are as before the call
C12_FailedInsertNoEffect ==
  Called("insert")
    => /\ full(pre) => (last.err = "logic_error" /\ vector = pre)
       /\ (~full(pre) /\ last.arg[3])
            => (last.err = "value_type_exception" /\ vector = pre)

\* the constructor threw in an insert before the last of two different elements
C12_Witness ==
  /\ Called("insert")
  /\ last.err = "value_type_exception"
  /\ size(pre) = 2
  /\ last.arg[1] = 0
  /\ pre.m_storage[0] # pre.m_storage[1]

\* C13: erase(insert(pos, x)) on a container that is not full, with element
\* operations that do not throw, succeeds and leaves the container as it was:
\* same size(), same elements in the same order
C13_InsertEraseRoundTrip ==
  Called("erase_insert")
    => LET p == last.arg[1]
           moves == size(pre) - p
           moveThrows == 0 <= last.arg[4] /\ last.arg[4] < moves
       IN /\ (~full(pre) /\ ~last.arg[3] /\ ~SwapThrows(p, last.arg[5]) /\ ~moveThrows)
               => last.err = "none"
          /\ last.err = "none"
               => /\ vector = pre
                  /\ Contents(vector) = Contents(pre)
                  /\ last.ret = <<p>>

\* the round trip in front of two elements, with a value that differs from
\* the last one
C13_Witness ==
  /\ Called("erase_insert")
  /\ last.err = "none"
  /\ size(pre) = 2
  /\ last.arg[1] = 0
  /\ pre.m_storage[1] # <<last.arg[2]>>

\* C14: a successful erase(first, last) with begin() <= first <= last <= end()
\* leaves old[0..f) ++ old[l..size), size() smaller by l - f, and returns the
\* iterator at index f; with first = last it changes nothing
C14_EraseRange ==
  (Called("erase_range") /\ last.err = "none")
    => LET f == last.arg[1]
           l == last.arg[2]
       IN /\ Contents(vector) = Take(Contents(pre), f) \o Drop(Contents(pre), l)
          /\ size(vector) = size(pre) - (l - f)
          /\ last.ret = <<f>>
          /\ f = l => vector = pre

\* C15: a successful erase(pos) with pos # end() leaves old[0..p) ++ old[p+1..size),
\* size() one smaller, and returns the iterator at index p, which is where the
\* next element now is, or end(); erase(end()) changes nothing and returns end()
C15_EraseOne ==
  (Called("erase") /\ last.err = "none")
    => LET p == last.arg[1]
       IN IF p # end(pre)
            THEN /\ Contents(vector) = Take(Contents(pre), p) \o Drop(Contents(pre), p + 1)
                 /\ size(vector) = size(pre) - 1
                 /\ last.ret = <<p>>
            ELSE /\ vector = pre
                 /\ last.ret = <<end(vector)>>

\* the elements of a sequence of values, as cells
Cells(rng) == [i \in 1..Len(rng) |-> <<rng[i]>>]

\* the first element operation of a bulk append of k elements that fails:
\* the append numbered j is refused when the container has become full, and
\* otherwise throws when it is the one whose constructor throws
AppendError(v, k, throwAt) ==
  LET room == capacity - size(v)
  IN IF 0 <= throwAt /\ throwAt < k /\ throwAt < room
       THEN "value_type_exception"
       ELSE IF k > room THEN "logic_error" ELSE "none"

\* C16: with size() + k <= capacity() and constructors that return,
\* insert(pos, k, x) and insert(pos, first, last) with a range of k elements
\* succeed; a successful call leaves old[0..p) ++ new elements ++ old[p..size),
\* the new elements being k copies of x, resp. the elements of the range in
\* order, size() larger by k, and returns the iterator at index p
C16_InsertMany ==
  /\ Called("insert_count")
       => LET p == last.arg[1]
              k == last.arg[2]
          IN /\ AppendError(pre, k, last.arg[4]) = "none" => last.err = "none"
             /\ last.err = "none"
                  => /\ Contents(vector) = Spliced(Contents(pre), p, Fill(k, last.arg[3]))
                     /\ size(vector) = size(pre) + k
                     /\ last.ret = <<p>>
  /\ Called("insert_range")
       => LET p == last.arg[1]
              rng == last.arg[2]
          IN /\ AppendError(pre, Len(rng), last.arg[3]) = "none" => last.err = "none"
             /\ last.err = "none"
                  => /\ Contents(vector) = Spliced(Contents(pre), p, Cells(rng))
                     /\ size(vector) = size(pre) + Len(rng)
                     /\ last.ret = <<p>>

\* two copies were inserted in front of an element that differs from them
C16_Witness ==
  /\ Called("insert_count")
  /\ last.err = "none"
  /\ last.arg[1] = 0
  /\ last.arg[2] = 2
  /\ size(pre) = 1
  /\ pre.m_storage[0] # <<last.arg[3]>>

\* C17: when the append phase of insert(pos, count, x) or insert(pos, first, last)
\* fails, because size() + count exceeds capacity() or because an element
\* constructor throws, the error reaches the caller and size() and every cell
\* are as before the call
C17_FailedInsertManyRolledBack ==
  /\ Called("insert_count")
       => /\ last.err = AppendError(pre, last.arg[2], last.arg[4])
          /\ last.err # "none" => vector = pre
  /\ Called("insert_range")
       => /\ last.err = AppendError(pre, Len(last.arg[2]), last.arg[3])
          /\ last.err # "none" => vector = pre

\* the second constructor threw in an insert of a range in front of an element
C17_Witness ==
  /\ Called("insert_range")
  /\ last.err = "value_type_exception"
  /\ last.arg[3] = 1
  /\ last.arg[1] = 0
  /\ size(pre) = 1

\* C18: when emplace_back_many(count, args...) or emplace_back_range(first, last)
\* fails after any number of appends, because a constructor throws or because
\* the container has become full, the error reaches the caller and size() and
\* every cell are as before the call, the cells of the appended elements empty
C18_BulkAppendRolledBack ==
  /\ Called("emplace_back_many")
       => /\ last.err = AppendError(pre, last.arg[1], last.arg[3])
          /\ last.err # "none" => vector = pre
  /\ Called("emplace_back_range")
       => /\ last.err = AppendError(pre, Len(last.arg[1]), last.arg[2])
          /\ last.err # "none" => vector = pre

\* emplace_back_many ran into the capacity after it had appended an element
\* behind one that was there
C18_Witness ==
  /\ Called("emplace_back_many")
  /\ last.err = "logic_error"
  /\ size(pre) >= 1
  /\ size(pre) < capacity
  /\ last.arg[1] > capacity - size(pre)

\* C19: a successful emplace_back_many(count, args...) appends max(count, 0)
\* elements made from args; a successful emplace_back_range(first, last)
\* appends the inputs in order and returns their number, the difference of
\* new and old size(); both leave the elements below the old size() alone
C19_BulkAppend ==
  /\ (Called("emplace_back_many") /\ last.err = "none")
       => /\ Contents(vector) = Contents(pre) \o Fill(Max(last.arg[1], 0), last.arg[2])
          /\ size(vector) = size(pre) + Max(last.arg[1], 0)
  /\ (Called("emplace_back_range") /\ last.err = "none")
       => /\ Contents(vector) = Contents(pre) \o Cells(last.arg[1])
          /\ last.ret = <<Len(last.arg[1])>>
          /\ last.ret = <<size(vector) - size(pre)>>

\* two different inputs were appended behind an element
C19_Witness ==
  /\ Called("emplace_back_range")
  /\ last.err = "none"
  /\ size(pre) = 1
  /\ Len(last.arg[1]) = 2
  /\ last.arg[1][1] # last.arg[1][2]

\* C20: resize(n, x) with 0 <= n <= capacity() and constructors that return
\* succeeds; a successful call leaves size() = n, the first min(s, n) elements
\* as they were and, when n > s, copies of x at the indices s .. n - 1
C20_ResizeInit ==
  (Called("resize_init") /\ 0 <= last.arg[1] /\ last.arg[1] <= capacity)
    => LET n == last.arg[1]
           s == size(pre)
       IN /\ AppendError(pre, n - s, last.arg[3]) = "none" => last.err = "none"
          /\ last.err = "none"
               => /\ size(vector) = n
                  /\ Contents(vector) = Take(Contents(pre), Min(s, n)) \o Fill(n - s, last.arg[2])

\* a container with one element grew to the capacity with a different value
C20_Witness ==
  /\ Called("resize_init")
  /\ last.err = "none"
  /\ size(pre) = 1
  /\ last.arg[1] = capacity
  /\ pre.m_storage[0] # <<last.arg[2]>>

\* a container whose cells below n are those of v and whose other cells are empty
Prefix(v, n) ==
  [m_size |-> n,
   m_storage |-> [i \in Slots |-> IF i < n THEN v.m_storage[i] ELSE Uninit]]

\* C21: resize(n) with size() < n <= capacity() and a default constructor that
\* returns succeeds, appends n - size() default-constructed elements, so that
\* size() = n, and keeps the elements that were there; resize(n) with
\* n <= size() does what shrink_to(n) does
C21_Resize ==
  Called("resize")
    => LET n == last.arg[1]
           s == size(pre)
           t == last.arg[2]
       IN /\ (s < n /\ n <= capacity /\ ~(0 <= t /\ t < n - s))
               => /\ last.err = "none"
                  /\ size(vector) = n
                  /\ Contents(vector) = Contents(pre) \o Fill(n - s, DefaultValue)
          /\ n <= s => vector = End(shrink_to(Begin(pre), n))

\* C22: resize(n) and resize(n, x) throw std::logic_error only when n exceeds
\* capacity(), and then always unless an element constructor throws first; when
\* they throw it, or the exception of an element constructor, size() and every
\* cell are as before the call
C22_ResizeErrors ==
  (Called("resize") \/ Called("resize_init"))
    => LET n == last.arg[1]
           t == IF Called("resize") THEN last.arg[2] ELSE last.arg[3]
           fill == n - size(pre)
       IN /\ last.err = "logic_error" => n > capacity
          /\ (n > capacity /\ ~(0 <= t /\ t < capacity - size(pre)))
               => last.err = "logic_error"
          /\ last.err = "value_type_exception" => (0 <= t /\ t < fill)
          /\ last.err \in {"logic_error", "value_type_exception"} => vector = pre

\* C23: for n >= 0, shrink_by(n) removes the last min(n, size()) elements and
\* shrink_to(n) leaves the first min(size(), n) elements; both keep that prefix
\* as it was, empty the cells behind it and throw nothing
C23_Shrink ==
  /\ (Called("shrink_by") /\ last.arg[1] >= 0)
       => /\ last.err = "none"
          /\ vector = Prefix(pre, size(pre) - Min(last.arg[1], size(pre)))
  /\ (Called("shrink_to") /\ last.arg[1] >= 0)
       => /\ last.err = "none"
          /\ vector = Prefix(pre, Min(size(pre), last.arg[1]))

\* shrink_by(1) took the last of two different elements
C23_Witness ==
  /\ Called("shrink_by")
  /\ last.arg[1] = 1
  /\ size(pre) = 2
  /\ size(vector) = 1
  /\ pre.m_storage[0] # pre.m_storage[1]

\* C24: shrink_by(n), shrink_to(n), resize(n) and resize(n, x) come back, with
\* a result or an exception, for every n, negative n included
C24_ShrinkAndResizeReturn ==
  (Called("shrink_by") \/ Called("shrink_to") \/ Called("resize") \/ Called("resize_init"))
    => last.err # "no_return"

\* C25: clear() leaves size() = 0 and every cell empty; clear() and pop_back()
\* on an empty container change nothing, so that the container is still empty
\* and can take the same call again
C25_ClearAndPopOnEmpty ==
  /\ Called("clear")
       => /\ last.err = "none"
          /\ vector = EmptyVector
  /\ ((Called("clear") \/ Called("pop_back")) /\ empty(pre))
       => /\ last.err = "none"
          /\ vector = pre
          /\ empty(vector)

\* clear() emptied a full container
C25_Witness ==
  /\ Called("clear")
  /\ full(pre)
  /\ empty(vector)

C27_CountInPlace ==
  Called("static_vector_count_in_place")
    => LET count == last.arg[1]
           args == last.arg[2]
           k == Len(args)
       IN (0 <= count /\ count <= capacity /\ last.arg[3] = 0 - 1)
            => /\ last.err = "none"
               /\ size(vector) = count
               /\ Contents(vector) = Take(Cells(args), Min(k, count)) \o Fill(count - k, DefaultValue)

\* C28: static_vector(first, last) over a range that fits, with constructors
\* that return, builds the elements of the range in order, size() its length;
\* over a longer range, or when a constructor throws, it throws and leaves the
\* container empty: size() = 0 and no cell with an element
C28_RangeConstructor ==
  Called("static_vector_range")
    => LET rng == last.arg[1]
       IN /\ last.err = AppendError(EmptyVector, Len(rng), last.arg[2])
          /\ last.err = "none"
               => /\ size(vector) = Len(rng)
                  /\ Contents(vector) = Cells(rng)
          /\ last.err # "none"
               => /\ vector = EmptyVector
                  /\ \A i \in Slots : ~live(vector.m_storage[i])

\* a range longer than the capacity was refused
C28_Witness ==
  /\ Called("static_vector_range")
  /\ Len(last.arg[1]) > capacity
  /\ last.err = "logic_error"
  /\ empty(vector)

\* C29: after the copy assignment d = s, whatever the sizes of d and s were,
\* d has the size and the elements of s, every cell of d from index s.size()
\* on is empty, and s is as it was
C29_CopyAssign ==
  (Called("copy_assign") \/ Called("assign_trivial"))
    => LET s == Holding(last.arg[1])
       IN /\ last.err = "none"
          /\ size(vector) = size(s)
          /\ \A i \in Slots : i < size(s) => vector.m_storage[i] = s.m_storage[i]
          /\ \A i \in Slots : i >= size(s) => ~live(vector.m_storage[i])
          /\ other = s

\* a container was copy-assigned from a shorter one with other elements
C29_Witness ==
  /\ Called("copy_assign")
  /\ size(pre) = capacity
  /\ Len(last.arg[1]) = 1
  /\ pre.m_storage[0] # vector.m_storage[0]

\* C30: after the move assignment d = std::move(s), or the move construction
\* of d from s, with element operations that return, d has the size s had and
\* the elements s had, in order, and every cell of d from that index on is empty
C30_MoveAssignAndConstruct ==
  (Called("move_assign") \/ Called("static_vector_move") \/ Called("static_vector_move_trivial"))
    => LET s == Holding(last.arg[1])
           t == IF Len(last.arg) >= 2 THEN last.arg[2] ELSE 0 - 1
       IN /\ ~(0 <= t /\ t < size(s)) => last.err = "none"
          /\ last.err = "none"
               => /\ size(vector) = size(s)
                  /\ \A i \in Slots : i < size(s) => vector.m_storage[i] = s.m_storage[i]
                  /\ \A i \in Slots : i >= size(s) => ~live(vector.m_storage[i])

\* a container was move-assigned from a shorter one with other elements
C30_Witness ==
  /\ Called("move_assign")
  /\ last.err = "none"
  /\ size(pre) = capacity
  /\ Len(last.arg[1]) = 1
  /\ pre.m_storage[0] # vector.m_storage[0]

\* the values of the live elements of a container, in order
Elems(v) == [i \in 1..v.m_size |-> v.m_storage[i - 1][1]]

\* C31: lhs == rhs, rhs of any capacity, is true exactly when both have the
\* same size() and equal elements at every index below it; it changes neither
\* side, and a container equals every container with its own elements
C31_Equality ==
  Called("operator==")
    => LET rng == last.arg[1]
       IN /\ last.err = "none"
          /\ last.ret[1] <=> (/\ size(pre) = Len(rng)
                              /\ \A i \in 1..Len(rng) :
                                   i <= size(pre) => pre.m_storage[i - 1] = <<rng[i]>>)
          /\ rng = Elems(pre) => last.ret[1]
          /\ vector = pre
          /\ other = HoldingIn(rng, last.arg[2])

\* a container compared unequal to one of another capacity that continues it
C31_Witness ==
  /\ Called("operator==")
  /\ size(pre) >= 1
  /\ Len(last.arg[1]) = size(pre) + 1
  /\ Take(last.arg[1], size(pre)) = Elems(pre)
  /\ last.arg[2] # capacity
  /\ ~last.ret[1]

\* s comes before t in the lexicographic order of sequences
LexLess(s, t) ==
  \/ Len(s) < Len(t) /\ Take(t, Len(s)) = s
  \/ \E k \in 1..Min(Len(s), Len(t)) :
       /\ Take(s, k - 1) = Take(t, k - 1)
       /\ s[k] < t[k]

\* C32: lhs <=> rhs is the lexicographic three-way comparison of the live
\* elements: less exactly when at the first index where they differ the
\* element of lhs is smaller, or lhs is a proper prefix of rhs; equal exactly
\* when lhs == rhs; and less exactly when rhs <=> lhs is greater
C32_ThreeWay ==
  Called("operator<=>")
    => LET s == Elems(pre)
           t == last.arg[1]
           r == last.ret[1]
       IN /\ last.err = "none"
          /\ r \in {"less", "equal", "greater"}
          /\ r = "less" <=> LexLess(s, t)
          /\ r = "greater" <=> LexLess(t, s)
          /\ r = "equal" <=> equal(pre, other)
          /\ r = "less" <=> lexicographical_compare_three_way(other, pre, 0) = "greater"
          /\ r = "greater" <=> lexicographical_compare_three_way(other, pre, 0) = "less"
          /\ vector = pre

\* a container compared less than a longer one that continues it
C32_Witness ==
  /\ Called("operator<=>")
  /\ size(pre) >= 1
  /\ Len(last.arg[1]) > size(pre)
  /\ Take(last.arg[1], size(pre)) = Elems(pre)
  /\ last.ret = <<"less">>

\* a sequence in the opposite order
Reversed(s) == [i \in 1..Len(s) |-> s[Len(s) + 1 - i]]

\* C33: end() - begin() is size() in every state; a loop from begin() to
\* end() dereferences the elements at indices 0, 1, ..., size() - 1 in that
\* order, a loop from rbegin() to rend() the same elements in the opposite
\* order, and neither dereferences a dead cell
C33_Iteration ==
  /\ difference(end(vector), begin(vector)) = size(vector)
  /\ Called("begin..end")
       => /\ last.ret[1] = size(pre)
          /\ last.ret[2] = Contents(pre)
          /\ \A i \in 1..Len(last.ret[2]) : live(last.ret[2][i])
          /\ vector = pre
  /\ Called("rbegin..rend")
       => /\ last.ret[1] = Reversed(Contents(pre))
          /\ Len(last.ret[1]) = size(pre)
          /\ \A i \in 1..Len(last.ret[1]) : live(last.ret[1][i])
          /\ vector = pre

\* a reverse loop over a container that holds different elements and has a
\* dead cell
C33_Witness ==
  /\ Called("rbegin..rend")
  /\ size(pre) = 2
  /\ pre.m_storage[0] # pre.m_storage[1]
  /\ last.ret = <<<<pre.m_storage[1], pre.m_storage[0]>>>>

\* C37: a step of an iterator moves it by one; the postfix forms it++ and
\* it-- return an iterator at the position held before the step, the prefix
\* forms ++it and --it one at the new position
C37_IteratorSteps ==
  /\ Called("operator++()") => last.ret = <<last.arg[1] + 1, last.arg[1] + 1>>
  /\ Called("operator++(int)") => last.ret = <<last.arg[1] + 1, last.arg[1]>>
  /\ Called("operator--()") => last.ret = <<last.arg[1] - 1, last.arg[1] - 1>>
  /\ Called("operator--(int)") => last.ret = <<last.arg[1] - 1, last.arg[1]>>

\* C34: when a move assignment of the shift in erase(pos) throws, whatever
\* number of elements has been moved before, the call has no effect: the
\* size and every cell are as before the call
C34_EraseNoEffectOnThrow ==
  (Called("erase") /\ last.err = "value_type_exception") => vector = pre

\* C35: when a move assignment of the shift in erase(first, last) throws, the
\* exception reaches the caller, size() is the size before the call, the
\* cells below size() are live and the cells from size() on are dead
C35_EraseRangeThrows ==
  Called("erase_range")
    => LET lst == last.arg[2]
           throwAt == last.arg[3]
       IN /\ (0 <= throwAt /\ throwAt < size(pre) - lst)
               <=> last.err = "value_type_exception"
          /\ last.err = "value_type_exception"
               => /\ size(vector) = size(pre)
                  /\ \A i \in Slots : live(vector.m_storage[i]) <=> i < size(vector)
                  /\ last.bad_destroy = 0
                  /\ last.bad_construct = 0

\* the second move assignment of erase(first, last) threw after the first
\* one had changed a cell
C35_Witness ==
  /\ Called("erase_range")
  /\ last.err = "value_type_exception"
  /\ last.arg[1] < last.arg[2]
  /\ last.arg[3] = 1
  /\ size(vector) = StaticSize
  /\ vector # pre

\* C36: when a swap of the rotate step of insert(pos, x) throws, after the
\* new element has been appended, the call has no effect: the size and every
\* cell are as before the call
C36_InsertNoEffectOnSwapThrow ==
  (/\ Called("insert")
   /\ ~full(pre)
   /\ ~last.arg[3]
   /\ SwapThrows(last.arg[1], last.arg[4]))
    => (last.err = "value_type_exception" /\ vector = pre)

\* C38: move assignment and move construction leave the size of the source
\* as it was; the cells of the source below its size() stay live, holding
\* moved-from values, and the cells from size() on dead, so that the
\* destructor of the source destroys each of its elements exactly once
C38_MovedFromSource ==
  (Called("move_assign") \/ Called("static_vector_move"))
    => LET s == Holding(last.arg[1])
           d == static_vector_destructor(Begin(other))
       IN /\ size(other) = size(s)
          /\ \A i \in Slots : live(other.m_storage[i]) <=> i < size(other)
          /\ d.bad_destroy = 0
          /\ ~d.no_return
          /\ size(d) = 0
          /\ \A i \in Slots : ~live(d.m_storage[i])

\* a move assignment from a container of two elements, the first of which
\* shows another value afterwards
C38_Witness ==
  /\ Called("move_assign")
  /\ last.err = "none"
  /\ Len(last.arg[1]) = 2
  /\ size(other) = 2
  /\ live(other.m_storage[0])
  /\ other.m_storage[0] # <<last.arg[1][1]>>

\* C39: when the value argument of push_back, insert(pos, x),
\* insert(pos, count, x) or resize(n, x) refers to the element v[i] of the
\* container itself, a call that succeeds leaves the old elements in their
\* order and every new element equal to the value v[i] had at the call
C39_AliasedArgument ==
  /\ Called("push_back_alias")
       => LET x == pre.m_storage[last.arg[1]]
          IN /\ (~full(pre) /\ ~last.arg[2]) => last.err = "none"
             /\ last.err = "none" => Contents(vector) = Append(Contents(pre), x)
  /\ Called("insert_alias")
       => LET p == last.arg[1]
              x == pre.m_storage[last.arg[2]]
          IN /\ (~full(pre) /\ ~last.arg[3] /\ ~SwapThrows(p, last.arg[4]))
                  => last.err = "none"
             /\ last.err = "none" => Contents(vector) = Spliced(Contents(pre), p, <<x>>)
  /\ Called("insert_count_alias")
       => LET p == last.arg[1]
              count == last.arg[2]
              x == pre.m_storage[last.arg[3]]
          IN /\ (size(pre) + count <= capacity /\ ~(0 <= last.arg[4] /\ last.arg[4] < count))
                  => last.err = "none"
             /\ last.err = "none"
                  => Contents(vector) = Spliced(Contents(pre), p, [k \in 1..count |-> x])
  /\ Called("resize_init_alias")
       => LET count == last.arg[1]
              x == pre.m_storage[last.arg[2]]
              added == count - size(pre)
          IN /\ (size(pre) < count /\ count <= capacity
                   /\ ~(0 <= last.arg[3] /\ last.arg[3] < added))
                  => last.err = "none"
             /\ (last.err = "none" /\ size(pre) < count)
                  => Contents(vector) = Contents(pre) \o [k \in 1..added |-> x]

\* an insert in front of two different elements whose argument refers to the
\* second one
C39_Witness ==
  /\ Called("insert_alias")
  /\ last.err = "none"
  /\ size(pre) = 2
  /\ last.arg[1] = 0
  /\ last.arg[2] = 1
  /\ pre.m_storage[0] # pre.m_storage[1]
  /\ vector.m_storage[0] = pre.m_storage[1]

====
